---- MODULE Spec2Model ----
(***************************************************************************)
(* DatabaseService (src/ARIA_ACCESSIBILITY_FIXES.md, lines 544-1190): the  *)
(* in-process read-through query cache with tag invalidation, the          *)
(* select / insert / update / delete / upsert / rawQuery operations in     *)
(* front of the supabase gateway, and batch.                               *)
(*                                                                         *)
(* JavaScript runs the service on one event loop: the code between two     *)
(* awaits is one atomic step.  Every action below is one such step.        *)
(***************************************************************************)
EXTENDS Integers, Sequences, FiniteSets, TLC

(***************************************************************************)
(* Strings are sequences of one-character strings, so that concatenation,  *)
(* JSON.stringify and base64 are computed character by character.          *)
(***************************************************************************)
Printable ==
  << " ", "!", "\"", "#", "$", "%", "&", "'", "(", ")", "*", "+", ",", "-", ".", "/",
     "0", "1", "2", "3", "4", "5", "6", "7", "8", "9", ":", ";", "<", "=", ">", "?",
     "@", "A", "B", "C", "D", "E", "F", "G", "H", "I", "J", "K", "L", "M", "N", "O",
     "P", "Q", "R", "S", "T", "U", "V", "W", "X", "Y", "Z", "[", "\\", "]", "^", "_",
     "<grave>", "a", "b", "c", "d", "e", "f", "g", "h", "i", "j", "k", "l", "m", "n", "o",
     "p", "q", "r", "s", "t", "u", "v", "w", "x", "y", "z", "{", "|", "}", "~" >>

\* The UTF-8 byte of a printable ASCII character (Buffer.from(key)).
CharCode(c) == 31 + (CHOOSE i \in 1..Len(Printable) : Printable[i] = c)

Base64Alphabet ==
  << "A", "B", "C", "D", "E", "F", "G", "H", "I", "J", "K", "L", "M", "N", "O", "P",
     "Q", "R", "S", "T", "U", "V", "W", "X", "Y", "Z", "a", "b", "c", "d", "e", "f",
     "g", "h", "i", "j", "k", "l", "m", "n", "o", "p", "q", "r", "s", "t", "u", "v",
     "w", "x", "y", "z", "0", "1", "2", "3", "4", "5", "6", "7", "8", "9", "+", "/" >>

Sextet(n) == Base64Alphabet[n + 1]

RECURSIVE Base64Bytes(_)
\* Buffer.toString('base64'): three bytes give four characters, '=' pads.
Base64Bytes(b) ==
  IF Len(b) = 0 THEN << >>
  ELSE IF Len(b) = 1 THEN
    << Sextet(b[1] \div 4), Sextet((b[1] % 4) * 16), "=", "=" >>
  ELSE IF Len(b) = 2 THEN
    << Sextet(b[1] \div 4), Sextet((b[1] % 4) * 16 + (b[2] \div 16)),
       Sextet((b[2] % 16) * 4), "=" >>
  ELSE
    << Sextet(b[1] \div 4), Sextet((b[1] % 4) * 16 + (b[2] \div 16)),
       Sextet((b[2] % 16) * 4 + (b[3] \div 64)), Sextet(b[3] % 64) >>
    \o Base64Bytes(SubSeq(b, 4, Len(b)))

Base64(s) == Base64Bytes([i \in 1..Len(s) |-> CharCode(s[i])])

(***************************************************************************)
(* JavaScript values.  A value is a pair <<type, payload>>; an object's    *)
(* payload is the sequence of its <<name, value>> fields in insertion      *)
(* order, which is the order JSON.stringify writes them in.                *)
(***************************************************************************)
Undefined == << "undefined", 0 >>
JNull == << "null", 0 >>
JNum(n) == << "number", n >>
JStr(s) == << "string", s >>
JArr(a) == << "array", a >>
JObj(fields) == << "object", fields >>

RECURSIVE Digits(_)
Digits(n) ==
  IF n < 10 THEN << Printable[17 + n] >>
  ELSE Digits(n \div 10) \o << Printable[17 + (n % 10)] >>

RECURSIVE Quote(_)
\* The body of a JSON string: '"' and '\' are escaped.
Quote(s) ==
  IF Len(s) = 0 THEN << >>
  ELSE (IF s[1] \in {"\"", "\\"} THEN << "\\", s[1] >> ELSE << s[1] >>)
       \o Quote(Tail(s))

RECURSIVE Stringify(_)
RECURSIVE StringifyItems(_)
RECURSIVE StringifyFields(_, _)

\* JSON.stringify of the elements of an array: undefined is written as null.
StringifyItems(a) ==
  IF Len(a) = 0 THEN << >>
  ELSE (IF a[1] = Undefined THEN << "n", "u", "l", "l" >> ELSE Stringify(a[1]))
       \o (IF Len(a) > 1 THEN << "," >> ELSE << >>)
       \o StringifyItems(Tail(a))

\* JSON.stringify of the fields of an object, in insertion order; a field
\* whose value is undefined is left out.
StringifyFields(f, first) ==
  IF Len(f) = 0 THEN << >>
  ELSE IF f[1][2] = Undefined THEN StringifyFields(Tail(f), first)
  ELSE (IF first THEN << >> ELSE << "," >>)
       \o << "\"" >> \o Quote(f[1][1]) \o << "\"", ":" >> \o Stringify(f[1][2])
       \o StringifyFields(Tail(f), FALSE)

Stringify(v) ==
  CASE v[1] = "number" -> Digits(v[2])
    [] v[1] = "string" -> << "\"" >> \o Quote(v[2]) \o << "\"" >>
    [] v[1] = "null" -> << "n", "u", "l", "l" >>
    [] v[1] = "array" -> << "[" >> \o StringifyItems(v[2]) \o << "]" >>
    [] v[1] = "object" -> << "{" >> \o StringifyFields(v[2], TRUE) \o << "}" >>

\* obj.name: the value of the last field of that name, or undefined.
RECURSIVE Field(_, _)
Field(obj, name) ==
  IF obj[1] # "object" \/ Len(obj[2]) = 0 THEN Undefined
  ELSE LET n == Len(obj[2]) IN
       IF obj[2][n][1] = name THEN obj[2][n][2]
       ELSE Field(JObj(SubSeq(obj[2], 1, n - 1)), name)

\* generateCacheKey: base64 of `${table}:${operation}:${JSON.stringify(params)}`.
generateCacheKey(table, operation, params) ==
  Base64(table \o << ":" >> \o operation \o << ":" >> \o Stringify(params))


(***************************************************************************)
(* Bounds of the model.                                                    *)
(***************************************************************************)
\* Number of clock advances explored.
MaxTicks == 2
\* Cap on the gateway call counter: no call is issued beyond it.
MaxCalls == 2
\* Number of changes other clients make to the remote store.
MaxRemote == 1
\* Longest operation list handed to batch.
MaxBatchLen == 3

\* Date.now() at construction, and the step of the simulated clock (ms).
StartMs == 600000
TickMs == 1000

\* ttl is in seconds, expiresAt in milliseconds (line 649).
MsPerSec == 1000
\* private defaultTTL = 300 (line 575).
InitialDefaultTTL == 300

Procs == {1, 2}

(***************************************************************************)
(* new Date(ms).toISOString(), for the first day of the epoch.             *)
(***************************************************************************)
Pad2(n) == IF n < 10 THEN << "0" >> \o Digits(n) ELSE Digits(n)
Pad3(n) == IF n < 10 THEN << "0", "0" >> \o Digits(n)
           ELSE IF n < 100 THEN << "0" >> \o Digits(n) ELSE Digits(n)

toISOString(ms) ==
  << "1", "9", "7", "0", "-", "0", "1", "-", "0", "1", "T" >>
  \o Pad2(ms \div 3600000) \o << ":" >>
  \o Pad2((ms \div 60000) % 60) \o << ":" >>
  \o Pad2((ms \div 1000) % 60) \o << "." >>
  \o Pad3(ms % 1000) \o << "Z" >>

(***************************************************************************)
(* The arguments callers pass.                                             *)
(***************************************************************************)
sSelect == << "s", "e", "l", "e", "c", "t" >>
sRaw == << "r", "a", "w" >>
sInv == << "i", "n", "v" >>
sCli == << "c", "l", "i" >>
fTtl == << "t", "t", "l" >>
fKey == << "k", "e", "y" >>
fTags == << "t", "a", "g", "s" >>
fCache == << "c", "a", "c", "h", "e" >>
fFilters == << "f", "i", "l", "t", "e", "r", "s" >>
fColumns == << "c", "o", "l", "u", "m", "n", "s" >>
fOrderBy == << "o", "r", "d", "e", "r", "B", "y" >>
fLimit == << "l", "i", "m", "i", "t" >>
fOffset == << "o", "f", "f", "s", "e", "t" >>
fInvalidateTags ==
  << "i", "n", "v", "a", "l", "i", "d", "a", "t", "e", "T", "a", "g", "s" >>
fQuery == << "q", "u", "e", "r", "y" >>
fParams == << "p", "a", "r", "a", "m", "s" >>
fStatus == << "s", "t", "a", "t", "u", "s" >>
fId == << "i", "d" >>
tagT == << "T" >>
tagU == << "U" >>

\* interface CacheConfig { ttl; key; tags? }
CacheConfig(ttl, tags) ==
  JObj(<< << fTtl, ttl >>, << fKey, JStr(<< "k" >>) >>, << fTags, tags >> >>)

Op(operation, table, data, filters, options) ==
  [operation |-> operation, table |-> table, data |-> data,
   filters |-> filters, options |-> options]

PaidFilter == JObj(<< << fStatus, JStr(<< "p" >>) >> >>)
IdFilter == JObj(<< << fId, JNum(1) >> >>)
Row == JObj(<< << fStatus, JStr(<< "p" >>) >> >>)

\* The calls made in the model.  A rawQuery keeps its statement in `table'
\* and its params in `data'.
Calls ==
  << Op("select", sInv, Undefined, Undefined,
        JObj(<< << fFilters, PaidFilter >>,
                << fCache, CacheConfig(JNum(2), JArr(<< JStr(tagT) >>)) >> >>)),
     Op("select", sCli, Undefined, Undefined,
        JObj(<< << fCache, CacheConfig(JNum(0), JArr(<< JStr(tagU) >>)) >> >>)),
     Op("select", sCli, Undefined, Undefined, Undefined),
     Op("select", sInv, Undefined, Undefined,
        JObj(<< << fCache, CacheConfig(JNum(1), Undefined) >> >>)),
     Op("rawQuery", << "q" >>, JArr(<< >>), Undefined,
        JObj(<< << fCache, CacheConfig(JNum(1), JArr(<< JStr(tagU) >>)) >> >>)),
     Op("update", sInv, Row, IdFilter,
        JObj(<< << fInvalidateTags, JArr(<< JStr(tagT) >>) >> >>)),
     Op("insert", sCli, Row, Undefined,
        JObj(<< << fCache, CacheConfig(JNum(2), JArr(<< JStr(tagT) >>)) >> >>)),
     Op("delete", sInv, Undefined, IdFilter,
        JObj(<< << fInvalidateTags, JArr(<< JStr(tagU) >>) >> >>)),
     Op("upsert", sCli, Row, Undefined,
        JObj(<< << fInvalidateTags, JArr(<< >>) >> >>)),
     Op("merge", sInv, Row, Undefined, Undefined),
     Op("select", sInv, Undefined, Undefined,
        JObj(<< << fCache, CacheConfig(JNum(2), JArr(<< JStr(tagT) >>)) >>,
                << fFilters, PaidFilter >> >>)),
     Op("rawQuery", << "q" >>, JArr(<< >>), Undefined, Undefined),
     Op("select", sRaw, Undefined, Undefined,
        JObj(<< << fQuery, JStr(<< "q" >>) >>, << fParams, JArr(<< >>) >> >>)),
     Op("select", sInv, Undefined, Undefined,
        JObj(<< << fFilters, PaidFilter >>,
                << fCache, CacheConfig(JNum(1), JArr(<< JStr(tagU) >>)) >> >>)) >>

CallIds == 1..Len(Calls)
\* The calls a caller makes directly, and the operations it puts in a batch.
DirectIds == {1, 2, 5, 6}
AllIds == {1, 5, 6, 7, 8, 9}
BatchOpIds == {1, 6, 10}
\* Reads that differ in the order of their options, in their cache
\* directive, or in being a select or a rawQuery.
KeyIds == {1, 2, 3, 4, 5, 11, 12, 13, 14}

IsUndefined(v) == v[1] = "undefined"
\* JavaScript truthiness of a value (if (x) ...).
Truthy(v) ==
  CASE v[1] \in {"undefined", "null"} -> FALSE
    [] v[1] = "number" -> v[2] # 0
    [] v[1] = "string" -> Len(v[2]) > 0
    [] OTHER -> TRUE

\* options = {} : the default of select, insert, update, delete, upsert, rawQuery.
OptionsOf(c) == IF IsUndefined(c.options) THEN JObj(<< >>) ELSE c.options

\* An array of strings as the list of its strings.
Strings(arr) == [i \in 1..Len(arr[2]) |-> arr[2][i][2]]

(***************************************************************************)
(* The gateway (supabase).  It is asked a query and answers with rows, an  *)
(* error object, or a rejected promise.                                    *)
(***************************************************************************)
\* What the gateway is asked: the builder calls of the operation.
GatewayQuery(c) ==
  LET o == OptionsOf(c) IN
  CASE c.operation = "select" ->
         << JStr(sSelect), JStr(c.table),
            IF Truthy(Field(o, fColumns)) THEN Field(o, fColumns) ELSE JStr(<< "*" >>),
            Field(o, fFilters), Field(o, fOrderBy),
            IF Truthy(Field(o, fLimit)) THEN Field(o, fLimit) ELSE Undefined,
            IF Truthy(Field(o, fOffset)) THEN Field(o, fOffset) ELSE Undefined >>
    [] c.operation = "rawQuery" ->
         << JStr(<< "r", "p", "c" >>), JStr(c.table), c.data >>
    [] OTHER ->
         << JStr(<< "w", "r", "i", "t", "e" >>), JStr(c.table), c.data, c.filters >>

\* Rows are named by the query that fetched them and the version of the
\* remote store they were read from.
QueryIds ==
  [c \in CallIds |->
     CHOOSE i \in CallIds :
       /\ GatewayQuery(Calls[i]) = GatewayQuery(Calls[c])
       /\ \A j \in 1..(i - 1) : GatewayQuery(Calls[j]) # GatewayQuery(Calls[c])]

Rows(c, version) == << "rows", << QueryIds[c], version >> >>

\* The answers of the gateway: { data, error: null }, { data: null, error }
\* with a message (which may be empty), a rejection with an Error, a
\* rejection with a value that is no Error.
Outcomes ==
  { [kind |-> "ok", message |-> << >>],
    [kind |-> "error", message |-> << "E" >>],
    [kind |-> "error", message |-> << >>],
    [kind |-> "throwError", message |-> << "N" >>],
    [kind |-> "throwOther", message |-> << "x" >>] }

DirectOutcomes == {o \in Outcomes : o.kind \in {"ok", "throwOther"} \/ o.message = << "E" >>}

sUnknownError ==
  << "U", "n", "k", "n", "o", "w", "n", " ", "e", "r", "r", "o", "r" >>
sUnsupported ==
  << "U", "n", "s", "u", "p", "p", "o", "r", "t", "e", "d", " ",
     "o", "p", "e", "r", "a", "t", "i", "o", "n", ":", " " >>
sMerge == << "m", "e", "r", "g", "e" >>
\* The TypeError of Object.entries(undefined).
sCannotConvert ==
  << "C", "a", "n", "n", "o", "t", " ", "c", "o", "n", "v", "e", "r", "t", " ",
     "u", "n", "d", "e", "f", "i", "n", "e", "d", " ", "o", "r", " ",
     "n", "u", "l", "l", " ", "t", "o", " ", "o", "b", "j", "e", "c", "t" >>

(***************************************************************************)
(* QueryResult<T> (lines 558-564).                                         *)
(***************************************************************************)
QueryResult(data, error, fromCache, cachedAt, expiresAt) ==
  [data |-> data, error |-> error, fromCache |-> fromCache,
   cachedAt |-> cachedAt, expiresAt |-> expiresAt]

Success(data) == QueryResult(data, JNull, FALSE, Undefined, Undefined)
\* A failure that returns an empty list as data beside its error.
FailureWithData(message) ==
  QueryResult(JArr(<< >>), JStr(message), FALSE, Undefined, Undefined)
Failure(message) == QueryResult(JNull, JStr(message), FALSE, Undefined, Undefined)
\* No result yet: the call has not returned.
Pending == QueryResult(Undefined, Undefined, FALSE, Undefined, Undefined)

\* catch (error): error instanceof Error ? error.message : 'Unknown error'
CaughtMessage(o) == IF o.kind = "throwError" THEN o.message ELSE sUnknownError

(***************************************************************************)
(* The cache: Map<string, { data, expiresAt, tags }> (line 572).           *)
(***************************************************************************)
Remove(c, keys) == [k \in (DOMAIN c) \ keys |-> c[k]]

\* An entry still valid at the instant it expires.
isCacheValidAtExpiry(c, key, t) == key \in DOMAIN c /\ t <= c[key].expiresAt
\* isCacheValid (lines 615-620)
isCacheValid(c, key, t) == key \in DOMAIN c /\ t < c[key].expiresAt

\* A get that does not look at the flag.
CacheHitAnyway(c, enabled, key, t) == key \in DOMAIN c /\ isCacheValid(c, key, t)
\* getFromCache returns an entry (lines 625-632): caching is enabled and
\* the entry is there and valid.
CacheHit(c, enabled, key, t) == enabled /\ key \in DOMAIN c /\ isCacheValid(c, key, t)

\* A hit that returns the expiry of the entry and not its data.
getFromCacheNoData(c, dttl, key) ==
  QueryResult(JNull, JNull, TRUE,
              JStr(toISOString(c[key].expiresAt - dttl * MsPerSec)),
              JStr(toISOString(c[key].expiresAt)))
\* getFromCache, the result of a hit (lines 634-640)
getFromCache(c, dttl, key) ==
  QueryResult(c[key].data, JNull, TRUE,
              JStr(toISOString(c[key].expiresAt - dttl * MsPerSec)),
              JStr(toISOString(c[key].expiresAt)))

\* getFromCache, the map it leaves (lines 626-632): a miss with caching
\* enabled deletes the key.
CacheAfterGet(c, enabled, key, t) ==
  IF ~enabled \/ CacheHit(c, enabled, key, t) THEN c ELSE Remove(c, {key})

\* A set that keeps the entry a key already has.
setCacheIfAbsent(c, enabled, dttl, key, data, ttl, tags, t) ==
  IF ~enabled \/ key \in DOMAIN c THEN c
  ELSE LET seconds == IF IsUndefined(ttl) THEN dttl ELSE ttl[2]
           entry == [data |-> data, expiresAt |-> t + seconds * MsPerSec, tags |-> tags]
       IN [k \in (DOMAIN c) \cup {key} |-> IF k = key THEN entry ELSE c[k]]
\* setCache with ttl || defaultTTL: a TTL of zero becomes the default.
setCacheOrDefault(c, enabled, dttl, key, data, ttl, tags, t) ==
  IF ~enabled THEN c
  ELSE LET seconds == IF Truthy(ttl) THEN ttl[2] ELSE dttl
           entry == [data |-> data, expiresAt |-> t + seconds * MsPerSec, tags |-> tags]
       IN [k \in (DOMAIN c) \cup {key} |-> IF k = key THEN entry ELSE c[k]]
\* setCache (lines 646-657); ttl is a number or undefined (then defaultTTL)
setCache(c, enabled, dttl, key, data, ttl, tags, t) ==
  IF ~enabled THEN c
  ELSE LET seconds == IF IsUndefined(ttl) THEN dttl ELSE ttl[2]
           entry == [data |-> data, expiresAt |-> t + seconds * MsPerSec, tags |-> tags]
       IN [k \in (DOMAIN c) \cup {key} |-> IF k = key THEN entry ELSE c[k]]

\* A match that takes an entry without tags to carry every tag.
TagsMatchOrUntagged(entryTags, tags) ==
  \/ Len(entryTags) = 0
  \/ \E i \in 1..Len(entryTags) : \E j \in 1..Len(tags) : entryTags[i] = tags[j]
\* entry.tags.some(tag => tags.includes(tag)) (line 667)
TagsMatch(entryTags, tags) ==
  \E i \in 1..Len(entryTags) : \E j \in 1..Len(tags) : entryTags[i] = tags[j]

Invalidated(c, tags) == {k \in DOMAIN c : TagsMatch(c[k].tags, tags)}

\* An invalidation that does not look at the flag.
invalidateCacheByTagsAlways(c, enabled, tags) == Remove(c, Invalidated(c, tags))
\* invalidateCacheByTags (lines 662-674), the map it leaves
invalidateCacheByTags(c, enabled, tags) ==
  IF ~enabled THEN c ELSE Remove(c, Invalidated(c, tags))

\* A sweep that keeps an entry at the instant it expires.
ExpiredStrictly(c, t) == {k \in DOMAIN c : t > c[k].expiresAt}
\* the cleanup callback (lines 690-698), the map it leaves
Expired(c, t) == {k \in DOMAIN c : t >= c[k].expiresAt}
\* A sweep that counts the expired entries and deletes none.
cleanupKeepingAll(c, t) == c
cleanup(c, t) == Remove(c, Expired(c, t))

\* A key of the query alone, the cache directive of a select left out.
CacheKeyOfQuery(c) ==
  IF c.operation = "rawQuery"
  THEN generateCacheKey(sRaw, sSelect,
         JObj(<< << fQuery, JStr(c.table) >>, << fParams, c.data >> >>))
  ELSE generateCacheKey(c.table, sSelect,
         JObj(SelectSeq(OptionsOf(c)[2], LAMBDA f : f[1] # fCache)))
\* The cache key of a read (lines 720 and 1028).
CacheKeyOf(c) ==
  IF c.operation = "rawQuery"
  THEN generateCacheKey(sRaw, sSelect,
         JObj(<< << fQuery, JStr(c.table) >>, << fParams, c.data >> >>))
  ELSE generateCacheKey(c.table, sSelect, OptionsOf(c))

CacheKeys == [c \in CallIds |-> CacheKeyOf(Calls[c])]

(***************************************************************************)
(* State.                                                                  *)
(*   cache, isCacheEnabled, defaultTTL  the fields of DatabaseService      *)
(*       (queryCache is never written and is left out)                     *)
(*   now            Date.now()                                             *)
(*   db             version of the remote store: a successful write makes  *)
(*                  a new one                                              *)
(*   gatewayCalls   the number of calls made to the gateway                *)
(*   pc, call, snap, bat, ret   each caller: where its call stands, the    *)
(*                  call, the version the gateway read, the progress of    *)
(*                  its batch, the QueryResult it was returned             *)
(*   last           what the step just taken removed from the cache, when  *)
(*                  it was invalidateCacheByTags, clearCache or cleanup    *)
(***************************************************************************)
VARIABLES cache, isCacheEnabled, defaultTTL, now, db, gatewayCalls,
          pc, call, snap, bat, ret, last

vars == << cache, isCacheEnabled, defaultTTL, now, db, gatewayCalls,
           pc, call, snap, bat, ret, last >>

EmptyCache == [k \in {} |-> 0]

\* The progress of a batch: its operations, the index i of the one it is at,
\* the data and the error of those that returned, the gateway calls each
\* one issued, and the result batch resumes with.
Batch(ops, i, results, errors, opCalls, res) ==
  [on |-> TRUE, ops |-> ops, i |-> i, results |-> results, errors |-> errors,
   calls |-> opCalls, res |-> res]

NoBatch == [on |-> FALSE, ops |-> << >>, i |-> 0, results |-> << >>,
            errors |-> << >>, calls |-> << >>, res |-> Pending]

\* What the step just taken removed from the cache: the operation, its
\* tags, the number of entries removed (invalidatedCount, cleanedCount).
\* A clearCache or a cleanup that removed nothing, and an
\* invalidateCacheByTags that met no entry with one of its tags, leave
\* NoEvent.
Event(op, tags, n) == [op |-> op, tags |-> tags, n |-> n]
NoEvent == Event("none", << >>, 0)
Removal(op, tags, n) == IF n = 0 THEN NoEvent ELSE Event(op, tags, n)

Init ==
  /\ cache = EmptyCache
  /\ isCacheEnabled = TRUE
  /\ defaultTTL = InitialDefaultTTL
  /\ now = StartMs
  /\ db = 0
  /\ gatewayCalls = 0
  /\ pc = [p \in Procs |-> "idle"]
  /\ call = [p \in Procs |-> 0]
  /\ snap = [p \in Procs |-> 0]
  /\ bat = [p \in Procs |-> NoBatch]
  /\ ret = [p \in Procs |-> Pending]
  /\ last = NoEvent

IsRead(c) == Calls[c].operation \in {"select", "rawQuery"}
IsWrite(c) == Calls[c].operation \in {"insert", "update", "delete", "upsert"}

\* options.cache, options.invalidateTags
CacheOption(c) == Field(OptionsOf(Calls[c]), fCache)
InvalidateTags(c) == Field(OptionsOf(Calls[c]), fInvalidateTags)
\* options.cache.tags || []
CacheTags(c) ==
  IF Truthy(Field(CacheOption(c), fTags)) THEN Strings(Field(CacheOption(c), fTags))
  ELSE << >>

(***************************************************************************)
(* An operation up to its first await.  The outcome is                     *)
(*   done    it returned without awaiting (a cache hit, a caught throw)    *)
(*   result  the QueryResult it returned, when done                        *)
(*   cache   the map it leaves                                             *)
(*   calls   the gateway calls it issued (0 or 1)                          *)
(***************************************************************************)
Begun(done, result, c, calls) ==
  [done |-> done, result |-> result, cache |-> c, calls |-> calls]

\* A read that joins the identical read another caller awaits and issues
\* no gateway call of its own.
readBeginCoalescing(c) ==
  IF CacheHit(cache, isCacheEnabled, CacheKeys[c], now)
  THEN Begun(TRUE, getFromCache(cache, defaultTTL, CacheKeys[c]), cache, 0)
  ELSE Begun(FALSE, Pending, CacheAfterGet(cache, isCacheEnabled, CacheKeys[c], now),
             IF \E q \in Procs : pc[q] = "await" /\ call[q] = c THEN 0 ELSE 1)
\* A read with a sliding expiration: a hit moves the expiry of the entry
\* to a second after the hit.
readBeginSliding(c) ==
  IF CacheHit(cache, isCacheEnabled, CacheKeys[c], now)
  THEN Begun(TRUE, getFromCache(cache, defaultTTL, CacheKeys[c]),
             [cache EXCEPT ![CacheKeys[c]].expiresAt = now + MsPerSec], 0)
  ELSE Begun(FALSE, Pending, CacheAfterGet(cache, isCacheEnabled, CacheKeys[c], now), 1)
\* A read that goes to the gateway without looking at the cache.
readBeginThrough(c) == Begun(FALSE, Pending, cache, 1)
\* select (lines 720-765) and rawQuery (lines 1028-1040)
readBegin(c) ==
  IF CacheHit(cache, isCacheEnabled, CacheKeys[c], now)
  THEN Begun(TRUE, getFromCache(cache, defaultTTL, CacheKeys[c]), cache, 0)
  ELSE Begun(FALSE, Pending, CacheAfterGet(cache, isCacheEnabled, CacheKeys[c], now), 1)

\* insert (lines 819-823) and upsert (lines 976-983)
insertBegin(c) == Begun(FALSE, Pending, cache, 1)

\* update (lines 870-878) and delete (lines 923-931): Object.entries(filters)
\* throws on undefined or null, which the catch turns into an error result.
updateBegin(c) ==
  IF Calls[c].filters[1] \in {"undefined", "null"}
  THEN Begun(TRUE, Failure(sCannotConvert), cache, 0)
  ELSE Begun(FALSE, Pending, cache, 1)

Begin(c) ==
  CASE IsRead(c) -> readBegin(c)
    [] Calls[c].operation \in {"insert", "upsert"} -> insertBegin(c)
    [] OTHER -> updateBegin(c)

(***************************************************************************)
(* An operation from the gateway's answer o to its return: the result,     *)
(* the map it leaves, the version of the remote store.                     *)
(***************************************************************************)
Ended(result, c, version) == [result |-> result, cache |-> c, db |-> version]

\* A read that stores its rows with or without a cache directive.
readEndAlwaysCaching(c, o, version) ==
  CASE o.kind = "error" -> Ended(Failure(o.message), cache, db)
    [] o.kind \in {"throwError", "throwOther"} ->
         Ended(Failure(CaughtMessage(o)), cache, db)
    [] OTHER ->
         Ended(Success(Rows(c, version)),
               setCache(cache, isCacheEnabled, defaultTTL, CacheKeys[c],
                        Rows(c, version), Field(CacheOption(c), fTtl),
                        CacheTags(c), now),
               db)
\* A read that caches the null data of a gateway error.
readEndCachingErrors(c, o, version) ==
  CASE o.kind = "error" ->
         Ended(Failure(o.message),
               IF Truthy(CacheOption(c))
               THEN setCache(cache, isCacheEnabled, defaultTTL, CacheKeys[c],
                             JNull, Field(CacheOption(c), fTtl), CacheTags(c), now)
               ELSE cache,
               db)
    [] o.kind \in {"throwError", "throwOther"} ->
         Ended(Failure(CaughtMessage(o)), cache, db)
    [] OTHER ->
         Ended(Success(Rows(c, version)),
               IF Truthy(CacheOption(c))
               THEN setCache(cache, isCacheEnabled, defaultTTL, CacheKeys[c],
                             Rows(c, version), Field(CacheOption(c), fTtl),
                             CacheTags(c), now)
               ELSE cache,
               db)
\* select (lines 765-805) and rawQuery (lines 1040-1080)
readEnd(c, o, version) ==
  CASE o.kind = "error" -> Ended(Failure(o.message), cache, db)
    [] o.kind \in {"throwError", "throwOther"} ->
         Ended(Failure(CaughtMessage(o)), cache, db)
    [] OTHER ->
         Ended(Success(Rows(c, version)),
               IF Truthy(CacheOption(c))
               THEN setCache(cache, isCacheEnabled, defaultTTL, CacheKeys[c],
                             Rows(c, version), Field(CacheOption(c), fTtl),
                             CacheTags(c), now)
               ELSE cache,
               db)

\* The data a successful write returns: delete returns null (line 950).
WrittenData(c, version) ==
  IF Calls[c].operation = "delete" THEN JNull ELSE Rows(c, version)

\* A write that honours a cache directive: it stores the rows it wrote.
writeEndCaching(c, o) ==
  CASE o.kind = "error" -> Ended(Failure(o.message), cache, db)
    [] o.kind \in {"throwError", "throwOther"} ->
         Ended(Failure(CaughtMessage(o)), cache, db)
    [] OTHER ->
         Ended(Success(WrittenData(c, db + 1)),
               IF Truthy(InvalidateTags(c))
               THEN invalidateCacheByTags(cache, isCacheEnabled, Strings(InvalidateTags(c)))
               ELSE IF Truthy(CacheOption(c))
               THEN setCache(cache, isCacheEnabled, defaultTTL, CacheKeys[c],
                             WrittenData(c, db + 1), Field(CacheOption(c), fTtl),
                             CacheTags(c), now)
               ELSE cache,
               db + 1)
\* A write that invalidates its tags before it looks at the answer.
writeEndInvalidatingFirst(c, o) ==
  LET left == IF Truthy(InvalidateTags(c))
              THEN invalidateCacheByTags(cache, isCacheEnabled, Strings(InvalidateTags(c)))
              ELSE cache
  IN CASE o.kind = "error" -> Ended(Failure(o.message), left, db)
       [] o.kind \in {"throwError", "throwOther"} ->
            Ended(Failure(CaughtMessage(o)), left, db)
       [] OTHER -> Ended(Success(WrittenData(c, db + 1)), left, db + 1)
\* insert (lines 825-855), update (880-910), delete (933-961), upsert (985-1015)
writeEnd(c, o) ==
  CASE o.kind = "error" -> Ended(Failure(o.message), cache, db)
    [] o.kind \in {"throwError", "throwOther"} ->
         Ended(Failure(CaughtMessage(o)), cache, db)
    [] OTHER ->
         Ended(Success(WrittenData(c, db + 1)),
               IF Truthy(InvalidateTags(c))
               THEN invalidateCacheByTags(cache, isCacheEnabled, Strings(InvalidateTags(c)))
               ELSE cache,
               db + 1)

End(c, o, version) == IF IsRead(c) THEN readEnd(c, o, version) ELSE writeEnd(c, o)

(***************************************************************************)
(* Direct calls of select, rawQuery, insert, update, delete, upsert.       *)
(***************************************************************************)
Call(p, c) ==
  /\ pc[p] = "idle"
  /\ LET b == Begin(c) IN
     /\ gatewayCalls + b.calls <= MaxCalls
     /\ cache' = b.cache
     /\ gatewayCalls' = gatewayCalls + b.calls
     /\ pc' = [pc EXCEPT ![p] = IF b.done THEN "idle" ELSE "await"]
     /\ ret' = [ret EXCEPT ![p] = b.result]
  /\ call' = [call EXCEPT ![p] = c]
  /\ snap' = [snap EXCEPT ![p] = db]
  /\ bat' = [bat EXCEPT ![p] = NoBatch]
  /\ last' = NoEvent
  /\ UNCHANGED << isCacheEnabled, defaultTTL, now, db >>

select(p, c) == Calls[c].operation = "select" /\ Call(p, c)
rawQuery(p, c) == Calls[c].operation = "rawQuery" /\ Call(p, c)
insert(p, c) == Calls[c].operation = "insert" /\ Call(p, c)
update(p, c) == Calls[c].operation = "update" /\ Call(p, c)
delete(p, c) == Calls[c].operation = "delete" /\ Call(p, c)
upsert(p, c) == Calls[c].operation = "upsert" /\ Call(p, c)

\* The gateway answers the direct call p awaits.
Response(p, o) ==
  /\ pc[p] = "await"
  /\ ~bat[p].on
  /\ LET e == End(call[p], o, snap[p]) IN
     /\ cache' = e.cache
     /\ db' = e.db
     /\ ret' = [ret EXCEPT ![p] = e.result]
  /\ pc' = [pc EXCEPT ![p] = "idle"]
  /\ last' = NoEvent
  /\ UNCHANGED << isCacheEnabled, defaultTTL, now, gatewayCalls, call, snap, bat >>

(***************************************************************************)
(* batch (lines 1104-1167).                                                *)
(***************************************************************************)
RECURSIVE SeqsUpTo(_, _)
SeqsUpTo(S, n) ==
  IF n = 0 THEN {<< >>}
  ELSE LET shorter == SeqsUpTo(S, n - 1) IN
       shorter \cup {Append(q, x) : q \in shorter, x \in S}

BatchLists == SeqsUpTo(BatchOpIds, MaxBatchLen)

\* Operation names as the template `Unsupported operation: ${op.operation}'
\* prints them.
OperationName(c) == IF Calls[c].operation = "merge" THEN sMerge ELSE << "?" >>

\* A switch that takes an operation of any kind for one it knows.
AnyOperationSupported(c) == TRUE
\* The cases of switch (op.operation) (lines 1119-1134).
BatchSupported(c) ==
  Calls[c].operation \in {"select", "insert", "update", "delete", "upsert"}

\* The for loop from operation i of ops up to the next await or return
\* (lines 1116-1166); results and errors hold the data and the error of
\* operations 1..i-1.
BatchLoop(p, ops, i, results, errors, opCalls) ==
  IF i > Len(ops)
  THEN \* lines 1154-1158
       /\ ret' = [ret EXCEPT ![p] = Success(JArr(results))]
       /\ pc' = [pc EXCEPT ![p] = "idle"]
       /\ bat' = [bat EXCEPT ![p] = Batch(ops, i, results, errors, opCalls, Pending)]
       /\ UNCHANGED << cache, gatewayCalls, snap >>
  ELSE IF ~BatchSupported(ops[i])
  THEN \* default: throw (line 1136), caught at lines 1159-1165
       /\ ret' = [ret EXCEPT ![p] = Failure(sUnsupported \o OperationName(ops[i]))]
       /\ pc' = [pc EXCEPT ![p] = "idle"]
       /\ bat' = [bat EXCEPT ![p] =
                    Batch(ops, i, results,
                          Append(errors, JStr(sUnsupported \o OperationName(ops[i]))),
                          opCalls, Pending)]
       /\ UNCHANGED << cache, gatewayCalls, snap >>
  ELSE LET b == Begin(ops[i]) IN
       /\ gatewayCalls + b.calls <= MaxCalls
       /\ cache' = b.cache
       /\ gatewayCalls' = gatewayCalls + b.calls
       /\ snap' = [snap EXCEPT ![p] = db]
       /\ ret' = [ret EXCEPT ![p] = Pending]
       /\ pc' = [pc EXCEPT ![p] = IF b.done THEN "resume" ELSE "await"]
       /\ bat' = [bat EXCEPT ![p] =
                    Batch(ops, i, results, errors,
                          [opCalls EXCEPT ![i] = @ + b.calls], b.result)]

\* batch is called: it runs to the first await of its first operation.
batch(p, ops) ==
  /\ pc[p] = "idle"
  /\ BatchLoop(p, ops, 1, << >>, << >>, [k \in 1..Len(ops) |-> 0])
  /\ call' = [call EXCEPT ![p] = 0]
  /\ last' = NoEvent
  /\ UNCHANGED << isCacheEnabled, defaultTTL, now, db >>

\* The gateway answers the operation a batch awaits: the operation returns.
BatchResponse(p, o) ==
  /\ pc[p] = "await"
  /\ bat[p].on
  /\ LET e == End(bat[p].ops[bat[p].i], o, snap[p]) IN
     /\ cache' = e.cache
     /\ db' = e.db
     /\ bat' = [bat EXCEPT ![p].res = e.result]
  /\ pc' = [pc EXCEPT ![p] = "resume"]
  /\ last' = NoEvent
  /\ UNCHANGED << isCacheEnabled, defaultTTL, now, gatewayCalls, call, snap, ret >>

\* if (result.error) (line 1139): the batch stops at this result.
StopsBatch(result) == Truthy(result.error)

\* A loop that steps over every other operation.
NextOperationSkipping(i) == i + 2
\* for (const op of operations): the operation after operation i.
NextOperation(i) == i + 1

\* A batch that undoes what its operations cached when it stops at an error.
BatchResumeRollingBack(p) ==
  /\ pc[p] = "resume"
  /\ IF StopsBatch(bat[p].res)
     THEN /\ ret' = [ret EXCEPT ![p] = QueryResult(JNull, bat[p].res.error, FALSE,
                                                   Undefined, Undefined)]
          /\ pc' = [pc EXCEPT ![p] = "idle"]
          /\ bat' = [bat EXCEPT ![p].res = Pending,
                                ![p].errors = Append(@, bat[p].res.error)]
          /\ cache' = EmptyCache
          /\ UNCHANGED << gatewayCalls, snap >>
     ELSE BatchLoop(p, bat[p].ops, NextOperation(bat[p].i),
                    Append(bat[p].results, bat[p].res.data),
                    Append(bat[p].errors, bat[p].res.error), bat[p].calls)
  /\ last' = NoEvent
  /\ UNCHANGED << isCacheEnabled, defaultTTL, now, db, call >>

\* batch resumes with the result of operation i (lines 1139-1147) and goes
\* on to the next operation.
BatchResume(p) ==
  /\ pc[p] = "resume"
  /\ IF StopsBatch(bat[p].res)
     THEN /\ ret' = [ret EXCEPT ![p] = QueryResult(JNull, bat[p].res.error, FALSE,
                                                   Undefined, Undefined)]
          /\ pc' = [pc EXCEPT ![p] = "idle"]
          /\ bat' = [bat EXCEPT ![p].res = Pending,
                                ![p].errors = Append(@, bat[p].res.error)]
          /\ UNCHANGED << cache, gatewayCalls, snap >>
     ELSE BatchLoop(p, bat[p].ops, NextOperation(bat[p].i),
                    Append(bat[p].results, bat[p].res.data),
                    Append(bat[p].errors, bat[p].res.error), bat[p].calls)
  /\ last' = NoEvent
  /\ UNCHANGED << isCacheEnabled, defaultTTL, now, db, call >>

(***************************************************************************)
(* The public cache operations, the cleanup timer and the clock.           *)
(***************************************************************************)
DefaultTTLs == {InitialDefaultTTL, 1}
TagLists == {<< >>, << tagT >>, << tagU >>, << tagT, tagU >>}

\* setCacheEnabled (lines 591-594)
setCacheEnabled(enabled) ==
  /\ isCacheEnabled' = enabled
  /\ last' = NoEvent
  /\ UNCHANGED << cache, defaultTTL, now, db, gatewayCalls, pc, call, snap, bat, ret >>

\* setDefaultTTL (lines 599-602)
setDefaultTTL(ttl) ==
  /\ defaultTTL' = ttl
  /\ last' = NoEvent
  /\ UNCHANGED << cache, isCacheEnabled, now, db, gatewayCalls, pc, call, snap, bat, ret >>

\* invalidateCacheByTags called by a caller (lines 662-674); n is the
\* invalidatedCount it logs.
InvalidateCacheByTags(tags) ==
  /\ cache' = invalidateCacheByTags(cache, isCacheEnabled, tags)
  /\ last' = IF Invalidated(cache, tags) = {} THEN NoEvent
             ELSE Event("invalidateCacheByTags", tags,
                        Cardinality(DOMAIN cache) - Cardinality(DOMAIN cache'))
  /\ UNCHANGED << isCacheEnabled, defaultTTL, now, db, gatewayCalls, pc, call, snap, bat, ret >>

\* clearCache (lines 679-683)
clearCache ==
  /\ cache' = EmptyCache
  /\ last' = Removal("clearCache", << >>, Cardinality(DOMAIN cache))
  /\ UNCHANGED << isCacheEnabled, defaultTTL, now, db, gatewayCalls, pc, call, snap, bat, ret >>

\* The setInterval callback of setupCacheCleanup (lines 689-703); n is
\* cleanedCount.
Cleanup ==
  /\ cache' = cleanup(cache, now)
  /\ last' = Removal("cleanup", << >>, Cardinality(Expired(cache, now)))
  /\ UNCHANGED << isCacheEnabled, defaultTTL, now, db, gatewayCalls, pc, call, snap, bat, ret >>

\* Time passes.
Tick ==
  /\ now + TickMs <= StartMs + MaxTicks * TickMs
  /\ now' = now + TickMs
  /\ last' = NoEvent
  /\ UNCHANGED << cache, isCacheEnabled, defaultTTL, db, gatewayCalls, pc, call, snap, bat, ret >>

\* Another client of the remote store changes it.
RemoteChange ==
  /\ db < MaxRemote
  /\ db' = db + 1
  /\ last' = NoEvent
  /\ UNCHANGED << cache, isCacheEnabled, defaultTTL, now, gatewayCalls, pc, call, snap, bat, ret >>

(***************************************************************************)
(* Spec: two callers whose direct reads and writes interleave with each    *)
(* other, with the public cache operations, the cleanup timer and the      *)
(* clock.                                                                  *)
(***************************************************************************)
Next ==
  \/ \E p \in Procs, c \in DirectIds : select(p, c)
  \/ \E p \in Procs, c \in DirectIds : rawQuery(p, c)
  \/ \E p \in Procs, c \in DirectIds : update(p, c)
  \/ \E p \in Procs, o \in DirectOutcomes : Response(p, o)
  \/ \E enabled \in BOOLEAN : setCacheEnabled(enabled)
  \/ \E tags \in TagLists : InvalidateCacheByTags(tags)
  \/ clearCache
  \/ Cleanup
  \/ Tick
  \/ RemoteChange

Spec == Init /\ [][Next]_vars

(***************************************************************************)
(* SpecAll: one caller making every kind of call, batch included, against  *)
(* every answer of the gateway, while caching is switched on and off,      *)
(* tags are invalidated and time passes.                                   *)
(***************************************************************************)
Caller == CHOOSE p \in Procs : \A q \in Procs : p <= q

NextAll ==
  \/ \E c \in AllIds : select(Caller, c)
  \/ \E c \in AllIds : rawQuery(Caller, c)
  \/ \E c \in AllIds : insert(Caller, c)
  \/ \E c \in AllIds : update(Caller, c)
  \/ \E c \in AllIds : delete(Caller, c)
  \/ \E c \in AllIds : upsert(Caller, c)
  \/ \E o \in Outcomes : Response(Caller, o)
  \/ \E ops \in BatchLists : batch(Caller, ops)
  \/ \E o \in Outcomes : BatchResponse(Caller, o)
  \/ BatchResume(Caller)
  \/ \E enabled \in BOOLEAN : setCacheEnabled(enabled)
  \/ \E tags \in TagLists : InvalidateCacheByTags(tags)
  \/ Tick

SpecAll == Init /\ [][NextAll]_vars

(***************************************************************************)
(* SpecReads: two callers whose reads interleave while nothing invalidates *)
(* tags or clears the cache: entries leave the map by expiry only.         *)
(***************************************************************************)
NextReads ==
  \/ \E p \in Procs, c \in DirectIds : select(p, c)
  \/ \E p \in Procs, c \in DirectIds : rawQuery(p, c)
  \/ \E p \in Procs, o \in DirectOutcomes : Response(p, o)
  \/ \E enabled \in BOOLEAN : setCacheEnabled(enabled)
  \/ Cleanup
  \/ Tick
  \/ RemoteChange

SpecReads == Init /\ [][NextReads]_vars

(***************************************************************************)
(* SpecKeys: two callers whose reads differ in the order of the fields of  *)
(* their options, in their cache directive, or in their kind, and the      *)
(* invalidation of their tags.                                             *)
(***************************************************************************)
NextKeys ==
  \/ \E p \in Procs, c \in KeyIds : select(p, c)
  \/ \E p \in Procs, c \in KeyIds : rawQuery(p, c)
  \/ \E p \in Procs, o \in DirectOutcomes : Response(p, o)
  \/ \E tags \in TagLists : InvalidateCacheByTags(tags)
  \/ clearCache
  \/ Cleanup
  \/ Tick

SpecKeys == Init /\ [][NextKeys]_vars

(***************************************************************************)
(* SpecLive: reads, the clock and the cleanup timer.  setInterval (line    *)
(* 689) is never cleared, so the cleanup callback keeps firing: it is      *)
(* weakly fair, and so is the clock up to the last instant of the model.   *)
(***************************************************************************)
LiveIds == {1, 2, 5}

NextLive ==
  \/ \E p \in Procs, c \in LiveIds : select(p, c)
  \/ \E p \in Procs, c \in LiveIds : rawQuery(p, c)
  \/ \E p \in Procs, o \in DirectOutcomes : Response(p, o)
  \/ Cleanup
  \/ Tick

SpecLive == Init /\ [][NextLive]_vars /\ WF_vars(Tick) /\ WF_vars(Cleanup)

(***************************************************************************)
(* Properties.                                                             *)
(***************************************************************************)
Ok == [kind |-> "ok", message |-> << >>]

\* The reads of the catalog and the TTL their cache directive carries.
Reads == {c \in CallIds : IsRead(c)}
Cached(c) == IsRead(c) /\ Truthy(CacheOption(c))
DirectiveTtl(c) == Field(CacheOption(c), fTtl)[2]
Entry(c) == cache[CacheKeys[c]]
\* A result that came from the gateway with rows.
Fetched(result) == result.error = JNull /\ ~result.fromCache /\ result.data[1] = "rows"
Failed(result) == result.error[1] = "string" /\ result.data = JNull
\* The version of the remote store rows were read from.
VersionOf(data) == data[2][2]

\* C4: an entry set with a TTL of ttl > 0 seconds at time t expires at
\* t + ttl * 1000 and a get at that same instant returns the stored value;
\* a get at or after the expiry of an entry, with no set in between, is a
\* miss that goes to the gateway.
C4_TtlExpiry ==
  [][ /\ \A p \in Procs, c \in Reads :
           ( /\ Response(p, Ok) /\ call[p] = c
             /\ Cached(c) /\ DirectiveTtl(c) > 0 /\ isCacheEnabled )
           => /\ CacheKeys[c] \in DOMAIN cache'
              /\ cache'[CacheKeys[c]].expiresAt = now + DirectiveTtl(c) * 1000
              /\ now' < cache'[CacheKeys[c]].expiresAt
              /\ isCacheValid(cache', CacheKeys[c], now')
              /\ getFromCache(cache', defaultTTL', CacheKeys[c]).data = ret'[p].data
      /\ \A q \in Procs, c \in Reads :
           ( /\ Call(q, c)
             /\ CacheKeys[c] \in DOMAIN cache /\ now >= Entry(c).expiresAt )
           => /\ ~ret'[q].fromCache
              /\ pc'[q] = "await"
              /\ gatewayCalls' = gatewayCalls + 1 ]_vars

\* A read was served from the cache at the instant its entry was set, and
\* another entry set with a positive TTL has reached its expiry.
C4_Witness ==
  \E p \in Procs, c, d \in Reads :
    /\ pc[p] = "idle" /\ call[p] = c /\ ret[p].fromCache
    /\ Cached(c) /\ DirectiveTtl(c) > 0
    /\ CacheKeys[c] \in DOMAIN cache
    /\ Entry(c).expiresAt = now + DirectiveTtl(c) * 1000
    /\ Cached(d) /\ DirectiveTtl(d) > 0
    /\ CacheKeys[d] \in DOMAIN cache /\ now = Entry(d).expiresAt

\* C5: a set with a TTL of exactly zero stores an entry that is never
\* valid: a read under a zero-TTL directive is never served from the cache,
\* at the instant of the set or later.
C5_ZeroTtl ==
  \A c \in Reads :
    (Cached(c) /\ DirectiveTtl(c) = 0) =>
      /\ \A p \in Procs : call[p] = c => ~ret[p].fromCache
      /\ CacheKeys[c] \in DOMAIN cache =>
           /\ Entry(c).expiresAt <= now
           /\ ~CacheHit(cache, TRUE, CacheKeys[c], now)
           /\ readBegin(c).calls = 1

\* A zero-TTL read has stored its entry and the same read was made again
\* at that instant: it awaits the gateway.
C5_Witness ==
  \E p, q \in Procs, c \in Reads :
    /\ p # q /\ Cached(c) /\ DirectiveTtl(c) = 0
    /\ call[p] = c /\ pc[p] = "idle" /\ Fetched(ret[p])
    /\ CacheKeys[c] \in DOMAIN cache /\ Entry(c).expiresAt = now
    /\ call[q] = c /\ pc[q] = "idle" /\ Fetched(ret[q]) /\ gatewayCalls = 2

\* The key of read c holds an entry that is valid now, with caching enabled.
Stored(c) ==
  isCacheEnabled /\ CacheKeys[c] \in DOMAIN cache /\ now < Entry(c).expiresAt

\* Caller p, whose read c with a positive-TTL cache directive last returned
\* rows fetched on a miss, makes the identical call again.
Repeats(p, c) ==
  /\ Cached(c) /\ DirectiveTtl(c) > 0
  /\ call[p] = c /\ pc[p] = "idle" /\ Fetched(ret[p])
  /\ Call(p, c)

\* C1 as stated: after a read with a cache directive of positive TTL has
\* succeeded on a miss, the identical read made while caching is enabled and
\* before the entry's expiry, with no invalidation or clear in between,
\* returns fromCache = true with the data the first call returned and makes
\* no gateway call.
C1_ReadThrough ==
  [][ \A p \in Procs, c \in Reads :
        (Repeats(p, c) /\ Stored(c))
        => /\ ret'[p].fromCache
           /\ ret'[p].error = JNull
           /\ ret'[p].data = ret[p].data
           /\ gatewayCalls' = gatewayCalls ]_vars

\* C1 amended: the identical read returns fromCache = true and makes no
\* gateway call, and its data is the data of the entry the key holds: the
\* data of the first call when that call stored its rows and no read of the
\* same key has stored since; every read that stores leaves its own rows
\* under the key.
C1_ReadThroughStored ==
  [][ /\ \A p \in Procs, c \in Reads :
           (Repeats(p, c) /\ Stored(c))
           => /\ ret'[p].fromCache
              /\ ret'[p].error = JNull
              /\ ret'[p].data = Entry(c).data
              /\ gatewayCalls' = gatewayCalls
              /\ pc'[p] = "idle"
              /\ cache' = cache
      /\ \A p \in Procs, c \in Reads :
           ( /\ Response(p, Ok) /\ call[p] = c
             /\ Cached(c) /\ DirectiveTtl(c) > 0 /\ isCacheEnabled )
           => /\ Fetched(ret'[p])
              /\ CacheKeys[c] \in DOMAIN cache'
              /\ cache'[CacheKeys[c]].data = ret'[p].data ]_vars

\* The identical read was served from the cache, with the rows the caller's
\* first call fetched, and no further gateway call.
C1_Witness ==
  \E p \in Procs, c \in Reads :
    /\ Cached(c) /\ DirectiveTtl(c) > 0
    /\ call[p] = c /\ pc[p] = "idle" /\ ret[p].fromCache
    /\ Stored(c) /\ ret[p].data = Entry(c).data
    /\ VersionOf(ret[p].data) = 0 /\ db = 0
    /\ gatewayCalls = 1

\* C10 as stated: a read whose gateway call fails returns a non-null error
\* and fromCache = false and leaves the cache as it was, so that the next
\* identical read calls the gateway again.
C10_FailedRead ==
  [][ /\ \A p \in Procs, c \in Reads, o \in DirectOutcomes \ {Ok} :
           (Response(p, o) /\ call[p] = c)
           => Failed(ret'[p]) /\ ~ret'[p].fromCache /\ cache' = cache
      /\ \A p \in Procs, c \in Reads :
           (call[p] = c /\ pc[p] = "idle" /\ Failed(ret[p]) /\ Call(p, c))
           => /\ gatewayCalls' = gatewayCalls + 1
              /\ pc'[p] = "await" ]_vars

\* C10 amended: the failed read returns a non-null error and
\* fromCache = false and leaves the cache as it was; the next identical read
\* calls the gateway again unless the key now holds a valid entry, stored by
\* another read of the same key, which it is then served.
C10_FailedReadStoresNothing ==
  [][ /\ \A p \in Procs, c \in Reads, o \in DirectOutcomes \ {Ok} :
           (Response(p, o) /\ call[p] = c)
           => Failed(ret'[p]) /\ ~ret'[p].fromCache /\ cache' = cache
      /\ \A p \in Procs, c \in Reads :
           (call[p] = c /\ pc[p] = "idle" /\ Failed(ret[p]) /\ Call(p, c))
           => IF Stored(c)
              THEN ret'[p].fromCache /\ ret'[p].data = Entry(c).data
              ELSE gatewayCalls' = gatewayCalls + 1 /\ pc'[p] = "await" ]_vars

\* A read has failed on an empty cache and the identical read that follows
\* it awaits the gateway.
C10_Witness ==
  \E p \in Procs, c \in Reads :
    /\ Cached(c) /\ call[p] = c /\ pc[p] = "await"
    /\ gatewayCalls = 2 /\ cache = EmptyCache
    /\ \A q \in Procs \ {p} : call[q] = 0

\* Write w invalidates a tag that the entry of read c carries.
InvalidatesEntryOf(w, c) ==
  /\ IsWrite(w) /\ Truthy(InvalidateTags(w))
  /\ Cached(c) /\ TagsMatch(CacheTags(c), Strings(InvalidateTags(w)))

\* C2: in every interleaving of in-flight reads and writes, once a write
\* with invalidateTags = {T} has returned success, a read issued afterwards
\* whose entry is tagged T is never served from an entry holding data
\* fetched before the write: if it is served from the cache at all, the
\* rows are of the version the write made or of a later one.
C2_WriteInvalidationOrdering ==
  [][ \A p, q \in Procs, w, c \in CallIds :
        ( /\ InvalidatesEntryOf(w, c)
          /\ call[p] = w /\ pc[p] = "idle"
          /\ ret[p].error = JNull /\ ret[p].data[1] = "rows"
          /\ Call(q, c) )
        => \/ ~ret'[q].fromCache
           \/ VersionOf(ret'[q].data) >= VersionOf(ret[p].data) ]_vars

\* C3: after invalidateCacheByTags([T]), in every cache state, no key whose
\* entry carried T holds an entry that a get can return, and every
\* unexpired entry without T is still there with its value, tags and expiry
\* unchanged.
C3_TagInvalidation ==
  [][ \A t \in {tagT, tagU} :
        InvalidateCacheByTags(<< t >>)
        => \A k \in DOMAIN cache :
             IF TagsMatch(cache[k].tags, << t >>)
             THEN ~(k \in DOMAIN cache' /\ now' < cache'[k].expiresAt)
             ELSE now < cache[k].expiresAt
                  => (k \in DOMAIN cache' /\ cache'[k] = cache[k]) ]_vars

\* The batch of the caller: the operations that have returned, and whether
\* batch itself has returned.
Returned(b) == Len(b.errors)
BatchReturned(p) == bat[p].on /\ pc[p] = "idle"
IsError(e) == e # JNull
\* The first operation of batch b that returned an error, 0 when none did.
FirstFailing(b) ==
  IF \E k \in 1..Returned(b) : IsError(b.errors[k])
  THEN CHOOSE k \in 1..Returned(b) :
         IsError(b.errors[k]) /\ \A j \in 1..(k - 1) : ~IsError(b.errors[j])
  ELSE 0

\* C6: when operations 1..k-1 of a batch succeed and operation k returns an
\* error, no operation after k is ever started (their gateway call counters
\* stay zero) and batch returns exactly operation k's error.
C6_BatchStopOnError ==
  \A p \in Procs :
    (bat[p].on /\ FirstFailing(bat[p]) > 0) =>
      LET k == FirstFailing(bat[p]) IN
      /\ Returned(bat[p]) = k
      /\ \A j \in (k + 1)..Len(bat[p].ops) : bat[p].calls[j] = 0
      /\ BatchReturned(p)
      /\ ret[p].error = bat[p].errors[k]

\* C7: within one batch, operations are issued in list order, each at most
\* once, operation i+1 only after operation i has returned; while the batch
\* runs, the operation it is at is the only one that can be in flight.
C7_BatchSequentialOrder ==
  \A p \in Procs :
    bat[p].on =>
      /\ bat[p].i >= 1
      /\ \A j \in 1..Len(bat[p].ops) :
           /\ bat[p].calls[j] <= 1
           /\ j > bat[p].i => bat[p].calls[j] = 0
           /\ j > Returned(bat[p]) + 1 => bat[p].calls[j] = 0
      /\ pc[p] \in {"await", "resume"} =>
           /\ bat[p].i = Returned(bat[p]) + 1
           /\ bat[p].i <= Len(bat[p].ops)
      /\ pc[p] = "await" => bat[p].calls[bat[p].i] = 1

\* The second operation of a batch is in flight after the first returned.
C7_Witness ==
  \E p \in Procs :
    /\ bat[p].on /\ pc[p] = "await" /\ bat[p].i = 2
    /\ Returned(bat[p]) = 1 /\ bat[p].calls[1] = 1 /\ bat[p].calls[2] = 1
    /\ Len(bat[p].ops) = 3 /\ bat[p].calls[3] = 0

\* C8: batch returns either error = null and as data the list of every
\* operation's data, in list order and as long as the list of operations,
\* or data = null and the error of the first operation that failed.
C8_BatchAllOrFirstFailure ==
  \A p \in Procs :
    BatchReturned(p) =>
      \/ /\ ret[p].error = JNull
         /\ FirstFailing(bat[p]) = 0
         /\ ret[p].data = JArr(bat[p].results)
         /\ Len(bat[p].results) = Len(bat[p].ops)
      \/ /\ ret[p].data = JNull
         /\ FirstFailing(bat[p]) > 0
         /\ ret[p].error = bat[p].errors[FirstFailing(bat[p])]

\* The QueryResults that have been returned: by a direct call, by batch, by
\* an operation of a batch.
Results ==
  {ret[p] : p \in {q \in Procs : pc[q] = "idle" /\ ret[q] # Pending}}
    \cup {bat[p].res : p \in {q \in Procs : pc[q] = "resume"}}
Present(v) == v # JNull /\ v # Undefined

\* C9 as stated: every QueryResult returned has exactly one of data and
\* error present (non-null).
C9_DataXorError ==
  \A r \in Results : Present(r.data) # Present(r.error)

\* C9 amended: no QueryResult returned has both data and error present;
\* neither is present in the result of a successful delete, and in no
\* other: a failure has its error and null data, every other success has
\* its data and a null error.
C9_DataOrErrorNotBoth ==
  /\ \A r \in Results : ~(Present(r.data) /\ Present(r.error))
  /\ \A p \in Procs :
       (pc[p] = "idle" /\ ret[p] # Pending /\ ~bat[p].on) =>
         /\ ret[p].error # Undefined /\ ret[p].data # Undefined
         /\ (~Present(ret[p].data) /\ ~Present(ret[p].error))
              <=> (Calls[call[p]].operation = "delete" /\ ret[p] = Success(JNull))
  /\ \A p \in Procs : BatchReturned(p) => Present(ret[p].data) # Present(ret[p].error)

\* A delete has returned success: data and error are both null.
C9_Witness ==
  \E p \in Procs :
    /\ pc[p] = "idle" /\ ~bat[p].on /\ call[p] # 0
    /\ Calls[call[p]].operation = "delete"
    /\ ret[p].data = JNull /\ ret[p].error = JNull /\ db = 1

Writes == {c \in CallIds : IsWrite(c)}
\* The gateway answers the operation that caller p awaits, directly or in a
\* batch, and that operation is c.
Answered(p, c, o) ==
  \/ Response(p, o) /\ call[p] = c
  \/ BatchResponse(p, o) /\ bat[p].ops[bat[p].i] = c
\* The QueryResult of the operation that was just answered.
Answer(p) == IF bat[p].on THEN bat'[p].res ELSE ret'[p]

\* C11: a write called with invalidateTags whose gateway call returns an
\* error or throws leaves the cache map as it was and returns the error.
C11_FailedWrite ==
  [][ \A p \in Procs, w \in Writes, o \in Outcomes \ {Ok} :
        (Answered(p, w, o) /\ Truthy(InvalidateTags(w)))
        => /\ cache' = cache
           /\ Answer(p).error[1] = "string"
           /\ Answer(p).data = JNull
           /\ ~Answer(p).fromCache ]_vars

\* A write that names the tag of a stored entry has failed and the entry
\* is still there.
C11_Witness ==
  \E p \in Procs, w \in Writes, k \in DOMAIN cache :
    /\ call[p] = w /\ pc[p] = "idle" /\ ~bat[p].on
    /\ ret[p].error[1] = "string"
    /\ Truthy(InvalidateTags(w))
    /\ TagsMatch(cache[k].tags, Strings(InvalidateTags(w)))
    /\ isCacheEnabled /\ gatewayCalls = 2

\* C12: while caching is disabled every read calls the gateway and returns
\* fromCache = false, whatever the map holds, and no read adds an entry to
\* the map.
C12_Disabled ==
  [][ ~isCacheEnabled =>
        /\ \A p \in Procs, c \in Reads :
             Call(p, c) => /\ gatewayCalls' = gatewayCalls + 1
                           /\ pc'[p] = "await"
                           /\ ~ret'[p].fromCache
                           /\ cache' = cache
        /\ \A p \in Procs, c \in Reads, o \in Outcomes :
             (Response(p, o) /\ call[p] = c)
             => ~ret'[p].fromCache /\ cache' = cache ]_vars

\* With caching disabled a read awaits the gateway although the map holds
\* a valid entry under its key.
C12_Witness ==
  \E p \in Procs, c \in Reads :
    /\ ~isCacheEnabled
    /\ pc[p] = "await" /\ call[p] = c
    /\ CacheKeys[c] \in DOMAIN cache /\ now < Entry(c).expiresAt

\* Caller p, whose write w of a table has just succeeded, reads that table
\* with read c.
ReadsAfterWrite(p, w, c) ==
  /\ call[p] = w /\ pc[p] = "idle" /\ ~bat[p].on
  /\ ret[p].error = JNull
  /\ Calls[w].table = Calls[c].table
  /\ Call(p, c)

SameFields(x, y) ==
  /\ x[1] = "object" /\ y[1] = "object"
  /\ Len(x[2]) = Len(y[2])
  /\ {x[2][i] : i \in 1..Len(x[2])} = {y[2][i] : i \in 1..Len(y[2])}
\* Two selects of the same table whose options hold the same fields, in
\* whatever order.
SameSelect(c, d) ==
  /\ Calls[c].operation = "select" /\ Calls[d].operation = "select"
  /\ Calls[c].table = Calls[d].table
  /\ SameFields(OptionsOf(Calls[c]), OptionsOf(Calls[d]))

\* C14: two parameter bags that hold the same fields and values in a
\* different construction order have the same key, so that a select with
\* the one is served the valid entry a select with the other stored.
C14_KeyFieldOrder ==
  [][ \A p \in Procs, c, d \in Reads :
        ( /\ SameSelect(c, d)
          /\ isCacheEnabled
          /\ CacheKeys[d] \in DOMAIN cache /\ now < Entry(d).expiresAt
          /\ Call(p, c) )
        => /\ CacheKeys[c] = CacheKeys[d]
           /\ ret'[p].fromCache
           /\ gatewayCalls' = gatewayCalls ]_vars

\* C15: when the gateway returns an error or throws, the operation returns
\* (it does not throw) a QueryResult whose error is the gateway's message
\* unchanged, and a batch returns the error of its operation unchanged.
C15_ErrorsPassThrough ==
  [][ /\ \A p \in Procs, c \in CallIds, o \in Outcomes \ {Ok} :
           Answered(p, c, o)
           => /\ pc'[p] \in {"idle", "resume"}
              /\ Answer(p).error = JStr(o.message)
      /\ \A p \in Procs :
           (BatchResume(p) /\ IsError(bat[p].res.error))
           => /\ pc'[p] = "idle"
              /\ ret'[p].error = bat[p].res.error ]_vars

\* Caller p starts operation c, directly or as the next operation of its
\* batch.
Starts(p, c) ==
  \/ Call(p, c)
  \/ /\ pc[p] \in {"idle", "resume"} /\ pc'[p] \in {"await", "resume"}
     /\ bat'[p].on
     /\ pc[p] = "resume" => bat'[p].i > bat[p].i
     /\ bat'[p].ops[bat'[p].i] = c

Plain == {c \in Reads : ~Truthy(CacheOption(c))}

\* C17 as stated: a select or rawQuery called without a cache directive
\* never adds an entry to the cache map, whether the gateway succeeds or
\* fails, and every such read calls the gateway.
C17_NoDirective ==
  [][ /\ \A p \in Procs, c \in Plain, o \in Outcomes :
           (Response(p, o) /\ call[p] = c) => cache' = cache
      /\ \A p \in Procs, c \in Plain :
           Call(p, c) => /\ gatewayCalls' = gatewayCalls + 1
                         /\ pc'[p] = "await" ]_vars

\* C17 amended: a read called without a cache directive never adds an
\* entry to the cache map, and it calls the gateway unless the map holds a
\* valid entry under its key, which it is then served.  Only a rawQuery
\* that had a directive stores such an entry: under the key of a rawQuery
\* of the same query and params, which is also the key of a select of the
\* table 'raw' whose options are that query and those params.  Every other
\* select without a directive calls the gateway.
C17_NoDirectiveNoStore ==
  [][ /\ \A p \in Procs, c \in Plain, o \in Outcomes :
           (Response(p, o) /\ call[p] = c) => cache' = cache
      /\ \A p \in Procs, c \in Plain :
           Call(p, c)
           => IF Stored(c)
              THEN /\ ret'[p].fromCache /\ ret'[p].data = Entry(c).data
                   /\ gatewayCalls' = gatewayCalls
                   /\ Calls[c].operation = "rawQuery" \/ Calls[c].table = sRaw
                   /\ \E d \in Reads : /\ Cached(d) /\ CacheKeys[d] = CacheKeys[c]
                                        /\ Calls[d].operation = "rawQuery"
                                        /\ Entry(c).data[2][1] = QueryIds[d]
              ELSE /\ gatewayCalls' = gatewayCalls + 1
                   /\ pc'[p] = "await"
                   /\ ~ret'[p].fromCache ]_vars

\* A select without a directive has returned rows and nothing is stored
\* under its key, and a rawQuery without a directive was served from the
\* cache.
C17_Witness ==
  \E p, q \in Procs, c, d \in Plain :
    /\ call[p] = c /\ pc[p] = "idle" /\ Calls[c].operation = "select"
    /\ Fetched(ret[p]) /\ CacheKeys[c] \notin DOMAIN cache
    /\ call[q] = d /\ pc[q] = "idle" /\ Calls[d].operation = "rawQuery"
    /\ ret[q].fromCache

\* Caller q awaits the gateway's answer to read c.
Awaits(q, c) == pc[q] = "await" /\ ~bat[q].on /\ call[q] = c

\* C18: a select started while an identical select awaits the gateway and
\* the key misses issues a gateway call of its own, two in total for the
\* two, and each of the two returns fromCache = false.
C18_NoCoalescing ==
  [][ /\ \A p, q \in Procs, c \in Reads :
           (p # q /\ Awaits(q, c) /\ ~Stored(c) /\ Call(p, c))
           => /\ gatewayCalls' = gatewayCalls + 1
              /\ pc'[p] = "await" /\ pc'[q] = "await"
              /\ ~ret'[p].fromCache
      /\ \A p, q \in Procs, c \in Reads :
           (p # q /\ Awaits(q, c) /\ Awaits(p, c)) => gatewayCalls >= 2
      /\ \A p \in Procs, c \in Reads, o \in Outcomes :
           (Awaits(p, c) /\ Response(p, o))
           => /\ ~ret'[p].fromCache
              /\ gatewayCalls' = gatewayCalls
              /\ \A q \in Procs \ {p} : pc'[q] = pc[q] ]_vars

\* Two identical selects with a positive TTL that overlapped have both
\* returned rows from the gateway, after two gateway calls.
C18_Witness ==
  \E p, q \in Procs, c \in Reads :
    /\ p # q /\ Cached(c) /\ DirectiveTtl(c) > 0
    /\ Calls[c].operation = "select"
    /\ call[p] = c /\ pc[p] = "idle" /\ Fetched(ret[p])
    /\ call[q] = c /\ pc[q] = "idle" /\ Fetched(ret[q])
    /\ gatewayCalls = 2 /\ now = StartMs /\ db = 0 /\ Stored(c)

\* C19: the map holds one entry per key; a set made while caching is
\* enabled leaves under its key exactly the value, the expiry now + ttl and
\* the tags it was given, whatever entry the key had, and leaves the other
\* keys alone: of several reads of a key, the one whose answer arrived last
\* has its rows in the map.
C19_LastWriteWins ==
  [][ \A p \in Procs, c \in Reads :
        (Response(p, Ok) /\ call[p] = c /\ Cached(c) /\ isCacheEnabled)
        => /\ DOMAIN cache' = (DOMAIN cache) \cup {CacheKeys[c]}
           /\ cache'[CacheKeys[c]] =
                [data |-> ret'[p].data,
                 expiresAt |-> now + DirectiveTtl(c) * 1000,
                 tags |-> CacheTags(c)]
           /\ ret'[p].data = Rows(c, snap[p])
           /\ \A k \in (DOMAIN cache) \ {CacheKeys[c]} : cache'[k] = cache[k] ]_vars

\* Two reads of one key have returned, the one rows of version 1 and the
\* other rows of version 0, and the map holds the rows of version 0: the
\* answer that arrived last replaced the newer rows.
C19_Witness ==
  \E p, q \in Procs, c \in Reads :
    /\ p # q /\ Cached(c)
    /\ call[p] = c /\ pc[p] = "idle" /\ Fetched(ret[p]) /\ VersionOf(ret[p].data) = 1
    /\ call[q] = c /\ pc[q] = "idle" /\ Fetched(ret[q]) /\ VersionOf(ret[q].data) = 0
    /\ CacheKeys[c] \in DOMAIN cache /\ Entry(c).data = ret[q].data
    /\ Cardinality(DOMAIN cache) = 1

\* C20: right after a run of the periodic cleanup at time now the map
\* holds no entry with expiresAt <= now, and every entry with
\* expiresAt > now that it held is still there, unchanged; the run touches
\* nothing else, whatever reads and writes are in flight.
C20_Sweep ==
  [][ Cleanup =>
        /\ \A k \in DOMAIN cache :
             IF cache[k].expiresAt <= now
             THEN k \notin DOMAIN cache'
             ELSE k \in DOMAIN cache' /\ cache'[k] = cache[k]
        /\ DOMAIN cache' \subseteq DOMAIN cache
        /\ \A k \in DOMAIN cache' : cache'[k].expiresAt > now'
        /\ UNCHANGED << pc, call, ret, gatewayCalls, isCacheEnabled, db >> ]_vars

\* A run of the cleanup has just evicted an expired entry and left the
\* entry that has not expired.
C20_Witness ==
  /\ last.op = "cleanup" /\ last.n = 1
  /\ Cardinality(DOMAIN cache) = 1
  /\ \E k \in DOMAIN cache : cache[k].expiresAt > now

\* The last instant the clock of the model reaches.
LastMs == StartMs + MaxTicks * TickMs

\* C21: with the clock advancing and the cleanup firing, every entry that
\* is stored, with an expiry the clock reaches, is eventually absent from
\* the map unless a later set gave the key an expiry beyond it: no entry
\* whose expiresAt has passed stays in the map forever.
C21_ExpiredEventuallyGone ==
  \A c \in LiveIds :
    (CacheKeys[c] \in DOMAIN cache /\ Entry(c).expiresAt <= LastMs)
      ~> (CacheKeys[c] \notin DOMAIN cache \/ Entry(c).expiresAt > LastMs)

\* An entry stored with a positive TTL is in the map at its expiry.
C21_Witness ==
  \E c \in LiveIds :
    /\ Cached(c) /\ DirectiveTtl(c) > 0
    /\ CacheKeys[c] \in DOMAIN cache /\ Entry(c).expiresAt <= now

\* The keys that hold an entry stored with an empty list of tags.
Untagged == {k \in DOMAIN cache : Len(cache[k].tags) = 0}

\* C22: no invalidateCacheByTags, whatever its argument, the empty list
\* included, removes or changes an entry stored with an empty list of
\* tags; such an entry leaves the map only by expiry (a read of its key or
\* the sweep, at or after its expiresAt), by clearCache, or by being
\* overwritten.
C22_UntaggedImmune ==
  [][ /\ \A tags \in TagLists :
           InvalidateCacheByTags(tags)
           => \A k \in Untagged : k \in DOMAIN cache' /\ cache'[k] = cache[k]
      /\ \A k \in Untagged :
           k \notin DOMAIN cache'
           => \/ cache[k].expiresAt <= now
              \/ last'.op = "clearCache" ]_vars

\* An invalidation has just removed a tagged entry and left the entry
\* stored without tags.
C22_Witness ==
  /\ last.op = "invalidateCacheByTags" /\ last.n = 1
  /\ \E k \in Untagged : now < cache[k].expiresAt

\* C23: invalidateCacheByTags is one step: it removes every entry present
\* at its start whose tags intersect its argument, skips none, removes no
\* other, touches no call in flight, and the invalidatedCount it logs is
\* the number of entries it removed.
C23_AtomicScan ==
  [][ \A tags \in TagLists :
        InvalidateCacheByTags(tags)
        => /\ DOMAIN cache' = (DOMAIN cache) \ Invalidated(cache, tags)
           /\ \A k \in DOMAIN cache' : cache'[k] = cache[k]
           /\ Invalidated(cache, tags) # {}
                => /\ last'.op = "invalidateCacheByTags"
                   /\ last'.n = Cardinality(Invalidated(cache, tags))
           /\ UNCHANGED << pc, call, ret, gatewayCalls >> ]_vars

\* The batch of caller p returns an error in this step.
BatchFails(p) ==
  /\ bat[p].on /\ pc[p] = "resume"
  /\ pc'[p] = "idle" /\ IsError(ret'[p].error)

\* C24: when an operation of a batch fails, neither the failing operation
\* nor the return of batch undoes what the operations before it did: the
\* remote store keeps their writes, the entries they removed stay removed
\* and the entries their reads stored stay stored.
C24_NoRollback ==
  [][ /\ \A p \in Procs :
           BatchFails(p)
           => /\ cache' = cache /\ db' = db /\ gatewayCalls' = gatewayCalls
              /\ bat'[p].calls = bat[p].calls
      /\ \A p \in Procs, o \in Outcomes \ {Ok} :
           BatchResponse(p, o) => cache' = cache /\ db' = db ]_vars

\* A batch has returned the error of its second operation and the write
\* of its first operation is in the remote store.
C24_Witness ==
  \E p \in Procs :
    /\ BatchReturned(p) /\ IsError(ret[p].error) /\ ret[p].data = JNull
    /\ Returned(bat[p]) = 2 /\ ~IsError(bat[p].errors[1])
    /\ IsWrite(bat[p].ops[1]) /\ db = 1

\* C25: two reads that differ in collection, in kind or in parameters
\* have different cache keys, so that a read is never answered with the
\* cached result of another request: the rows a hit returns are rows of
\* the read's own query.
C25_DistinctRequestsDistinctKeys ==
  [][ \A p \in Procs, c \in Reads :
        (Call(p, c) /\ ret'[p].fromCache)
        => /\ ret'[p].data[1] = "rows"
           /\ ret'[p].data[2][1] = QueryIds[c]
           /\ \A d \in Reads :
                QueryIds[d] # QueryIds[c] => CacheKeys[d] # CacheKeys[c] ]_vars

\* C26 as stated: while caching is disabled no step other than clearCache
\* changes the cache map.
C26_DisabledFrame ==
  [][ (~isCacheEnabled /\ ~clearCache) => cache' = cache ]_vars

\* C26 amended: while caching is disabled the cache map is changed by
\* clearCache and by the periodic cleanup only, and the cleanup removes
\* expired entries only: reads neither evict nor store, invalidateCacheByTags
\* (called directly or by a write) removes nothing, and every unexpired
\* entry stays as it is until clearCache.
C26_DisabledFrameButSweep ==
  [][ ~isCacheEnabled =>
        /\ cache' = cache \/ clearCache \/ Cleanup
        /\ clearCache
           \/ \A k \in DOMAIN cache :
                now < cache[k].expiresAt
                => (k \in DOMAIN cache' /\ cache'[k] = cache[k])
        /\ DOMAIN cache' \subseteq DOMAIN cache ]_vars

\* With caching disabled an invalidation has just met a valid entry that
\* carries its tag and left it in the map.
C26_Witness ==
  /\ ~isCacheEnabled
  /\ last.op = "invalidateCacheByTags" /\ last.n = 0
  /\ \E k \in DOMAIN cache :
       TagsMatch(cache[k].tags, last.tags) /\ now < cache[k].expiresAt

\* The ttl setCache stores an entry of read c with: the directive's ttl,
\* or the default when the directive has none.
StoredTtl(c) ==
  IF IsUndefined(Field(CacheOption(c), fTtl)) THEN defaultTTL ELSE DirectiveTtl(c)

\* C27: on every cache hit the reported timestamps agree with the entry:
\* cachedAt is expiresAt minus the ttl the entry was stored with, the time
\* it was stored, so that cachedAt <= time of the hit < expiresAt, and the
\* reported expiresAt is the entry's.
C27_HitTimestamps ==
  [][ \A p \in Procs, c \in Reads :
        (Cached(c) /\ Call(p, c) /\ ret'[p].fromCache)
        => LET storedAt == Entry(c).expiresAt - StoredTtl(c) * MsPerSec
           IN  /\ ret'[p].cachedAt = JStr(toISOString(storedAt))
               /\ ret'[p].expiresAt = JStr(toISOString(Entry(c).expiresAt))
               /\ storedAt <= now /\ now < Entry(c).expiresAt ]_vars

\* Two selects that ask the gateway the same query (same table, columns,
\* filters, ordering and pagination) under different cache directives.
OtherDirective(c, d) ==
  /\ Calls[c].operation = "select" /\ Calls[d].operation = "select"
  /\ QueryIds[c] = QueryIds[d]
  /\ CacheOption(c) # CacheOption(d)

\* C28: the cache directive is part of a select's key: two selects of the
\* same query with different cache directives have different keys, and a
\* select that has such a twin is served only an entry stored under its own
\* directive: the entry carries the tags of the select's directive and does
\* not outlive its ttl.
C28_DirectiveInKey ==
  [][ \A p \in Procs, c \in Reads :
        Call(p, c)
        => \A d \in Reads :
             OtherDirective(c, d)
             => /\ CacheKeys[c] # CacheKeys[d]
                /\ ret'[p].fromCache
                   => /\ Cached(c)
                      /\ Entry(c).tags = CacheTags(c)
                      /\ Entry(c).expiresAt <= now + StoredTtl(c) * MsPerSec ]_vars

\* A select answered from the cache while the entry its twin under another
\* directive stored is valid too.
C28_Witness ==
  \E p \in Procs, c \in Reads, d \in Reads :
    /\ OtherDirective(c, d)
    /\ call[p] = c /\ pc[p] = "idle" /\ ret[p].fromCache
    /\ Stored(c) /\ Stored(d)

\* C29: a cache hit does not change the cache: a select or rawQuery served
\* from the cache leaves the whole map, and with it the value, tags and
\* expiresAt of the entry, as it was, and is served before the entry's
\* expiresAt only; an entry that stays in the map changes only when the
\* answer of a read is set under its key.  An entry set at s with ttl is
\* therefore not served at or after s + ttl, however often it was hit.
C29_HitFrame ==
  [][ /\ \A p \in Procs, c \in Reads :
           (Call(p, c) /\ ret'[p].fromCache)
           => /\ cache' = cache
              /\ now < Entry(c).expiresAt
              /\ ret'[p].data = Entry(c).data
      /\ \A k \in DOMAIN cache \cap DOMAIN cache' :
           cache'[k] # cache[k]
           => \E p \in Procs :
                /\ Response(p, Ok)
                /\ CacheKeys[call[p]] = k
                /\ cache'[k].expiresAt = now + StoredTtl(call[p]) * MsPerSec ]_vars

\* A read was served from the cache for the second time, later than its
\* entry was set, and the entry still expires a ttl after it was set.
C29_Witness ==
  \E p, q \in Procs, c \in Reads :
    /\ p # q /\ Cached(c) /\ DirectiveTtl(c) > 1
    /\ call[p] = c /\ pc[p] = "idle" /\ ret[p].fromCache
    /\ call[q] = c /\ pc[q] = "idle" /\ ret[q].fromCache
    /\ gatewayCalls = 1
    /\ Stored(c)
    /\ Entry(c).expiresAt = StartMs + DirectiveTtl(c) * MsPerSec
    /\ now > StartMs

\* The kinds of operation batch has a case for.
SupportedKinds == {"select", "insert", "update", "delete", "upsert"}

\* C30: a batch that reaches an operation whose kind is none of select,
\* insert, update, delete, upsert stops there: batch has returned, without
\* throwing, data = null and an 'Unsupported operation' error; that
\* operation and the operations after it were never started, and each
\* operation before it has run (with a gateway call, or served from the
\* cache) and returned.
C30_UnsupportedStops ==
  \A p \in Procs :
    ( /\ bat[p].on /\ bat[p].i <= Len(bat[p].ops)
      /\ Calls[bat[p].ops[bat[p].i]].operation \notin SupportedKinds )
    => LET i == bat[p].i IN
       /\ pc[p] = "idle"
       /\ ret[p].data = JNull
       /\ ret[p].error = JStr(sUnsupported \o sMerge)
       /\ \A j \in i..Len(bat[p].ops) : bat[p].calls[j] = 0
       /\ Len(bat[p].results) = i - 1
       /\ \A j \in 1..(i - 1) :
            /\ Calls[bat[p].ops[j]].operation \in SupportedKinds
            /\ bat[p].calls[j] = 1 \/ bat[p].results[j][1] = "rows"
       /\ Returned(bat[p]) = i

\* A batch of a write, an unsupported operation and a read has returned
\* the 'Unsupported operation' error after the write reached the remote
\* store; the read was not started.
C30_Witness ==
  \E p \in Procs :
    /\ BatchReturned(p) /\ Len(bat[p].ops) = 3 /\ bat[p].i = 2
    /\ IsWrite(bat[p].ops[1]) /\ IsRead(bat[p].ops[3])
    /\ Calls[bat[p].ops[2]].operation \notin SupportedKinds
    /\ ret[p].error = JStr(sUnsupported \o sMerge) /\ ret[p].data = JNull
    /\ db = 1 /\ gatewayCalls = 1 /\ bat[p].calls[3] = 0

====
